---- MODULE Spec2Model ----
(***************************************************************************)
(* Model of the donations tracker's background task (src/src/checker.rs)   *)
(* and of the persistence gateway it writes through (src/src/sql.rs).      *)
(*                                                                         *)
(* Strings are sequences of one-character strings, so that concatenation,  *)
(* case folding, integer parsing and decimal formatting are computed the   *)
(* way the code computes them.                                             *)
(***************************************************************************)
EXTENDS Integers, Sequences, FiniteSets, Bags, TLC

(***************************************************************************)
(* Bounds of the model and constants of the program.                       *)
(***************************************************************************)
\* Hex digits of an address string (40 in the program, scaled down).
AddrDigits == 2
\* Entries the explorer returns in one run, over both lists together.
MaxTxs == 3
\* checker.rs:94-95, the backfill window reaches 49999 blocks below its end.
PastSpan == 49999
\* checker.rs:120-121, the incremental window reaches 64 blocks below head.
NewSpan == 64
\* checker.rs:205 and 250, "{:.18}".
Decimals == 18

(***************************************************************************)
(* Strings.                                                                *)
(***************************************************************************)
Pad(c, n) == [i \in 1..n |-> c]

DigitChars == <<"0", "1", "2", "3", "4", "5", "6", "7", "8", "9">>

LowerHex == {"a", "b", "c", "d", "e", "f"}
UpperHex == {"A", "B", "C", "D", "E", "F"}

IsDigit(c) == \E i \in 1..10 : DigitChars[i] = c

DigitVal(c) == (CHOOSE i \in 1..10 : DigitChars[i] = c) - 1

IsHex(c) == IsDigit(c) \/ c \in LowerHex \/ c \in UpperHex

\* char::to_lowercase on the characters the model uses.
ToLowerChar(c) ==
    CASE c = "A" -> "a" [] c = "B" -> "b" [] c = "C" -> "c" [] c = "D" -> "d"
      [] c = "E" -> "e" [] c = "F" -> "f" [] c = "X" -> "x" [] c = "H" -> "h"
      [] OTHER -> c

ToUpperChar(c) ==
    CASE c = "a" -> "A" [] c = "b" -> "B" [] c = "c" -> "C" [] c = "d" -> "D"
      [] c = "e" -> "E" [] c = "f" -> "F"
      [] OTHER -> c

\* str::to_lowercase (checker.rs:182).
to_lowercase(s) == [i \in 1..Len(s) |-> ToLowerChar(s[i])]

\* u64/u128/U256 to_string: the decimal digits of n, no leading zeros.
RECURSIVE to_string(_)
to_string(n) ==
    IF n < 10 THEN <<DigitChars[n + 1]>>
    ELSE to_string(n \div 10) \o <<DigitChars[(n % 10) + 1]>>

RECURSIVE DigitsValue(_)
DigitsValue(s) ==
    IF s = <<>> THEN 0
    ELSE 10 * DigitsValue(SubSeq(s, 1, Len(s) - 1)) + DigitVal(s[Len(s)])

\* str::parse::<u128>: an optional "+", then one or more ASCII digits.  The
\* model's value strings are far shorter than 39 digits, so the overflow
\* error of the parse is not reached.
parse_u128(s) ==
    LET body == IF s # <<>> /\ s[1] = "+" THEN Tail(s) ELSE s
    IN  IF body # <<>> /\ \A i \in 1..Len(body) : IsDigit(body[i])
        THEN [ok |-> TRUE, val |-> DigitsValue(body)]
        ELSE [ok |-> FALSE, val |-> 0]

\* .unwrap_or(0) of the parse (checker.rs:183, 204, 249).
parse_or_zero(s) == IF parse_u128(s).ok THEN parse_u128(s).val ELSE 0

\* format!("{:.18}", (value_in_wei as f64) / 1e18f64) (checker.rs:205, 250):
\* the wei count written with 18 decimals.  The values of the model are
\* below 2^53, where the conversion to f64 is exact.
format_eth(v) ==
    LET d == to_string(v)
        p == IF Len(d) <= Decimals THEN Pad("0", Decimals + 1 - Len(d)) \o d ELSE d
    IN  SubSeq(p, 1, Len(p) - Decimals) \o <<".">> \o
        SubSeq(p, Len(p) - Decimals + 1, Len(p))

(***************************************************************************)
(* Addresses.                                                              *)
(***************************************************************************)
\* Address::from_str (checker.rs:198): an optional "0x", then exactly
\* AddrDigits hex digits of either case.  The value is the digits in lower
\* case, standing for the address bytes.
Address_from_str(s) ==
    LET body == IF Len(s) >= 2 /\ s[1] = "0" /\ s[2] = "x" THEN SubSeq(s, 3, Len(s)) ELSE s
    IN  IF Len(body) = AddrDigits /\ \A i \in 1..Len(body) : IsHex(body[i])
        THEN [ok |-> TRUE, val |-> to_lowercase(body)]
        ELSE [ok |-> FALSE, val |-> <<>>]

\* Address's Debug and Display forms (checker.rs:201 "{:?}", :229 to_string):
\* "0x" and the EIP-55 mixed-case digits.  Which letters are capitals is
\* decided by a keccak digest in the program; here by the digit's position.
address_format(a) ==
    <<"0", "x">> \o [i \in 1..Len(a) |-> IF i % 2 = 1 THEN ToUpperChar(a[i]) ELSE a[i]]

ZeroAddress == Pad("0", AddrDigits)

(***************************************************************************)
(* Hash keys (checker.rs:344-363).  SHA-256 is modelled as an injective    *)
(* tagging of its input: equal inputs give equal digests, different inputs *)
(* different ones.                                                         *)
(***************************************************************************)
Sha256Hex(input) == <<"#">> \o input

generate_transfer_hash_key(amount_wei, from_address, tx_hash) ==
    Sha256Hex(amount_wei \o from_address \o tx_hash)

\* generate_donation_hash_key without the log index in its input.
generate_donation_hash_key_no_index(amount_wei, from_address, tx_hash, log_index) ==
    Sha256Hex(amount_wei \o from_address \o tx_hash)

generate_donation_hash_key(amount_wei, from_address, tx_hash, log_index) ==
    Sha256Hex(amount_wei \o from_address \o tx_hash \o log_index)

(***************************************************************************)
(* Configuration and collaborators.                                        *)
(***************************************************************************)
\* TARGET_TRANSFER_ADDRESS (main.rs:58-59), kept as the string it was given.
target_address == <<"0", "x">> \o Pad("A", AddrDigits)

\* START_BLOCK values (main.rs:62-66).
StartBlocks == {0, 1000}

\* Block numbers the provider may report as the latest header.
Heads == {0, 40, 64, 100, 49999, 50000, 120000}

ToSame == <<"0", "x">> \o Pad("a", AddrDigits)
ToOther == <<"0", "x">> \o Pad("b", AddrDigits)
FromC == <<"0", "x">> \o Pad("c", AddrDigits)
FromD == <<"0", "x">> \o Pad("D", AddrDigits)
FromBad == <<"0", "x">> \o Pad("z", AddrDigits)

\* TransactionInfo (checker.rs:16-22) values the explorer may return.
TxA == [from |-> FromC, to |-> ToSame, value |-> <<"5">>, hash |-> <<"h", "1">>]
TxB == [from |-> FromD, to |-> target_address, value |-> <<"1", "2">>, hash |-> <<"h", "2">>]
TxZero == [from |-> FromC, to |-> ToSame, value |-> <<"0">>, hash |-> <<"h", "3">>]
TxOther == [from |-> FromC, to |-> ToOther, value |-> <<"5">>, hash |-> <<"h", "4">>]
TxUnparsable == [from |-> FromC, to |-> ToSame, value |-> <<"0", "x", "5">>, hash |-> <<"h", "5">>]
TxBadFrom == [from |-> FromBad, to |-> ToSame, value |-> <<"7">>, hash |-> <<"h", "6">>]

Entries == {TxA, TxB, TxZero, TxOther, TxUnparsable, TxBadFrom}

RECURSIVE SeqsUpTo(_, _)
SeqsUpTo(S, n) ==
    IF n = 0 THEN {<<>>}
    ELSE LET shorter == SeqsUpTo(S, n - 1)
         IN  shorter \cup {Append(q, e) : q \in shorter, e \in S}

\* EtherscanResponse (checker.rs:24-28) of one call; status "1" is success.
Responses(n) == [status : {"1", "0"}, result : SeqsUpTo(Entries, n)]

\* Logs on the chain; a log that is no Donation event has valid = FALSE.
ChainLogs == <<
    [block |-> 20, valid |-> FALSE, tx_hash |-> <<"t", "0">>, log_index |-> 0,
     donor |-> Pad("0", AddrDigits), amount |-> 0],
    [block |-> 30, valid |-> TRUE, tx_hash |-> <<"t", "1">>, log_index |-> 0,
     donor |-> Pad("c", AddrDigits), amount |-> 5],
    [block |-> 119990, valid |-> TRUE, tx_hash |-> <<"t", "2">>, log_index |-> 1,
     donor |-> Pad("d", AddrDigits), amount |-> 12],
    [block |-> 119995, valid |-> FALSE, tx_hash |-> <<"t", "3">>, log_index |-> 0,
     donor |-> Pad("0", AddrDigits), amount |-> 0] >>

RECURSIVE PickLogs(_, _, _, _, _)
PickLogs(i, from_block, to_block, present, rm) ==
    IF i > Len(ChainLogs) THEN <<>>
    ELSE LET l == ChainLogs[i]
             rest == PickLogs(i + 1, from_block, to_block, present, rm)
         IN  IF i \in present /\ from_block <= l.block /\ l.block <= to_block
             THEN <<[log |-> l, removed |-> (i \in rm)]>> \o rest
             ELSE rest

\* provider.get_logs(filter) (checker.rs:107, 130): the logs of the window in
\* block order; `present` is what the chain holds, `rm` the retracted ones.
get_logs(from_block, to_block, present, rm) == PickLogs(1, from_block, to_block, present, rm)

\* What the name service may answer.
ResolverAddr == Pad("e", AddrDigits)
ResolvedName == <<"e", "n", "s">>
\* A contract call fails (ok = FALSE) or returns its decoded value.
ResolverAnswers ==
    {[ok |-> FALSE, val |-> <<>>], [ok |-> TRUE, val |-> ZeroAddress],
     [ok |-> TRUE, val |-> ResolverAddr]}
NameAnswers ==
    {[ok |-> FALSE, val |-> <<>>], [ok |-> TRUE, val |-> <<>>],
     [ok |-> TRUE, val |-> ResolvedName]}

(***************************************************************************)
(* State.                                                                  *)
(***************************************************************************)
VARIABLES
    pc,                  \* where the background task stands
    step,                \* the step of run() in progress
    result,              \* what the step in progress, or just ended, returned
    start_block,         \* Checker.start_block
    transfers,           \* rows of eth_transfers, a bag
    donations,           \* rows of donations, a bag
    normal_response,     \* check_transfers: the first call's response
    all_txs,             \* check_transfers: the concatenated lists
    idx,                 \* check_transfers: position in all_txs
    cur,                 \* the record in hand: hash_key, exists, from_display
    current_end_block,   \* process_past_logs / process_new_logs
    current_start_block,
    logs,                \* the logs of the window in hand
    lidx,                \* position in logs
    windows,             \* the windows handed to get_logs by the step in progress
    restarted_from,      \* what the task was doing when the process was last killed
    scanned,             \* history: the head of the last scan that returned Ok
    hash_args,           \* two field tuples handed to the hash-key functions
    hash_keys            \* the keys the functions gave for them

vars == <<pc, step, result, start_block, transfers, donations, normal_response,
          all_txs, idx, cur, current_end_block, current_start_block, logs, lidx,
          windows, restarted_from, scanned, hash_args, hash_keys>>

hash_vars == <<hash_args, hash_keys>>
kept == <<restarted_from, scanned, hash_vars>>
store == <<transfers, donations>>
ct_locals == <<normal_response, all_txs, idx>>
scan_locals == <<current_end_block, current_start_block, logs, lidx, windows>>

NoResponse == [status |-> "", result |-> <<>>]
NoRecord == [hash_key |-> <<>>, exists |-> FALSE, from_display |-> <<>>]

Rows(table) == BagToSet(table)

(***************************************************************************)
(* Persistence gateway (src/src/sql.rs).                                   *)
(***************************************************************************)
\* The existence check with its answer lost: never finds a row.
check_transfer_exists_never(hash_key) == FALSE

\* The existence check with ">= 0" for "> 0": always finds a row.
check_transfer_exists_always(hash_key) == TRUE

\* SELECT COUNT(*) ... WHERE hash_key = $1, > 0 (sql.rs:23-39).
check_transfer_exists(hash_key) == \E r \in Rows(transfers) : r.hash_key = hash_key

\* The existence check answering "not stored" for every key.
check_donation_exists_never(hash_key) == FALSE

check_donation_exists(hash_key) == \E r \in Rows(donations) : r.hash_key = hash_key

\* INSERT INTO eth_transfers ... (sql.rs:49): a plain insert, one more row.
insert_transfer(table, tx_hash, from_address, eth_amount, hash_key, from_name) ==
    table (+) SetToBag({[tx_hash |-> tx_hash, from_address |-> from_address,
                         eth_amount |-> eth_amount, hash_key |-> hash_key,
                         from_name |-> from_name]})

\* The statement of insert_donation as the source writes it (sql.rs:90-97):
\* the SET list of the conflict clause ends with a comma.
insert_donation_sql ==
    <<"INSERT INTO donations", "VALUES", "ON CONFLICT (hash_key)", "DO UPDATE SET",
      "removed = EXCLUDED.removed", ",">>

\* The store parses a statement before it runs it; a list that ends with a
\* comma is a syntax error and the statement is refused.
SqlAccepted(stmt) == stmt[Len(stmt)] # ","

\* What the upsert does when the store runs it: a new row, or on a hash_key
\* conflict the existing row with removed replaced.
upsert_donation(table, removed, tx_hash, log_index, from_address, eth_amount, hash_key, from_name) ==
    IF \E r \in Rows(table) : r.hash_key = hash_key
    THEN LET hit == {r \in Rows(table) : r.hash_key = hash_key}
             keep == {r \in Rows(table) : r.hash_key # hash_key}
             others == [r \in keep |-> table[r]]
         IN  others (+) SetToBag({[r EXCEPT !.removed = removed] : r \in hit})
    ELSE table (+) SetToBag({[removed |-> removed, tx_hash |-> tx_hash,
                              log_index |-> log_index, from_address |-> from_address,
                              eth_amount |-> eth_amount, hash_key |-> hash_key,
                              from_name |-> from_name]})

\* A statement the store accepts and that writes every column on a
\* hash_key conflict: the row of the key is replaced by the one handed in.
insert_donation_overwrite(table, removed, tx_hash, log_index, from_address, eth_amount, hash_key, from_name) ==
    LET keep == {r \in Rows(table) : r.hash_key # hash_key}
        others == [r \in keep |-> table[r]]
    IN  [ok |-> TRUE,
         table |-> others (+) SetToBag({[removed |-> removed, tx_hash |-> tx_hash,
                                         log_index |-> log_index,
                                         from_address |-> from_address,
                                         eth_amount |-> eth_amount,
                                         hash_key |-> hash_key,
                                         from_name |-> from_name]})]

\* insert_donation (sql.rs:79-111): Ok with the table after it, or Err with
\* the table as it was.
insert_donation(table, removed, tx_hash, log_index, from_address, eth_amount, hash_key, from_name) ==
    IF SqlAccepted(insert_donation_sql)
    THEN [ok |-> TRUE,
          table |-> upsert_donation(table, removed, tx_hash, log_index, from_address,
                                    eth_amount, hash_key, from_name)]
    ELSE [ok |-> FALSE, table |-> table]

(***************************************************************************)
(* The background task: Checker::run and the functions it calls.           *)
(***************************************************************************)
\* The history of scans is kept from the start in the behaviours that
\* begin with scanned.on, and in no other.
NoScan == [on |-> FALSE, head |-> -1]
Scanned(h) == IF scanned.on THEN [scanned EXCEPT !.head = h] ELSE scanned

InitTask ==
    /\ pc = "past_head"
    /\ step = "backfill"
    /\ result = "none"
    /\ start_block \in StartBlocks
    /\ transfers = EmptyBag
    /\ normal_response = NoResponse
    /\ all_txs = <<>>
    /\ idx = 0
    /\ cur = NoRecord
    /\ current_end_block = 0
    /\ current_start_block = 0
    /\ logs = <<>>
    /\ lidx = 0
    /\ windows = <<>>
    /\ restarted_from = <<"none", "none">>

Init ==
    /\ InitTask
    /\ donations = EmptyBag
    /\ scanned = NoScan
    /\ hash_args = <<>>
    /\ hash_keys = <<>>

DropCtLocals == normal_response' = NoResponse /\ all_txs' = <<>> /\ idx' = 0

DropScanLocals ==
    /\ current_end_block' = 0
    /\ current_start_block' = 0
    /\ logs' = <<>>
    /\ lidx' = 0
    /\ windows' = <<>>

\* A panic unwinds the task: tokio drops it, the process lives on.
Panic(msg) ==
    /\ pc' = "panicked"
    /\ result' = msg
    /\ cur' = NoRecord
    /\ DropCtLocals
    /\ DropScanLocals
    /\ UNCHANGED <<step, start_block, store, kept>>

\* The step in progress returns r to run().
ReturnPc == CASE step = "backfill" -> "past_ret"
              [] step = "reconcile" -> "ct_ret"
              [] OTHER -> "new_ret"

Return(r) ==
    /\ pc' = ReturnPc
    /\ result' = r
    /\ cur' = NoRecord

\* A window that starts where it ends.
past_window_start_stuck(end_block) == end_block

\* checker.rs:94-98.
past_window_start(end_block) == IF end_block >= PastSpan THEN end_block - PastSpan ELSE 0

\* checker.rs:120-124.
new_window_start(end_block) == IF end_block >= NewSpan THEN end_block - NewSpan ELSE 0

\* process_past_logs, the header query (checker.rs:90-91).
PastGetHead ==
    /\ pc = "past_head"
    /\ \/ /\ Return("err_header")
          /\ UNCHANGED <<step, start_block, store, ct_locals, scan_locals, kept>>
       \/ Panic("unwrap on None")
       \/ \E h \in Heads :
            /\ current_end_block' = h
            /\ pc' = "past_loop"
            /\ UNCHANGED <<step, result, start_block, store, ct_locals, cur,
                           current_start_block, logs, lidx, windows, kept>>

\* process_past_logs, the loop head and the log query (checker.rs:93-107),
\* and the return after the loop (checker.rs:114).
PastLoop ==
    /\ pc = "past_loop"
    /\ IF start_block < current_end_block
       THEN /\ current_start_block' = past_window_start(current_end_block)
            /\ windows' = Append(windows, <<current_start_block', current_end_block>>)
            /\ \/ /\ Return("err_logs")
                  /\ UNCHANGED <<logs, lidx>>
               \/ \E present \in SUBSET (1..Len(ChainLogs)) : \E rm \in SUBSET present :
                    /\ logs' = get_logs(current_start_block', current_end_block, present, rm)
                    /\ lidx' = 1
                    /\ pc' = "log_loop"
                    /\ UNCHANGED <<result, cur>>
            /\ UNCHANGED <<step, start_block, store, ct_locals, current_end_block,
                           kept>>
       ELSE /\ Return("ok")
            /\ UNCHANGED <<step, start_block, store, ct_locals, scan_locals, kept>>

\* The end of `for log in logs`: the next window of the backfill
\* (checker.rs:112), or the return of process_new_logs (checker.rs:134).
LogsDone ==
    /\ pc = "log_loop"
    /\ lidx > Len(logs)
    /\ IF step = "backfill"
       THEN /\ current_end_block' = current_start_block
            /\ pc' = "past_loop"
            /\ logs' = <<>>
            /\ lidx' = 0
            /\ UNCHANGED <<result, cur, current_start_block, windows>>
       ELSE /\ Return("ok")
            /\ UNCHANGED scan_locals
    /\ UNCHANGED <<step, start_block, store, ct_locals, kept>>

\* The strings process_donation_event derives from a log (checker.rs:226-230).
donation_tx_hash(l) == l.log.tx_hash
donation_log_index(l) == to_string(l.log.log_index)
donation_amount(l) == to_string(l.log.amount)
donation_donor(l) == address_format(l.log.donor)
donation_hash_key(l) ==
    generate_donation_hash_key(donation_amount(l), donation_donor(l),
                               donation_tx_hash(l), donation_log_index(l))

\* The decode failure returned to the caller as an error.
DecodeFailed_Fatal ==
    /\ Return("err_decode")
    /\ UNCHANGED lidx

\* process_donation_event on a log that does not decode (checker.rs:265-269):
\* a line is printed and Ok(()) returned, the loop goes to the next log.
DecodeFailed ==
    /\ lidx' = lidx + 1
    /\ UNCHANGED <<pc, result, cur>>

\* process_donation_event up to the existence check (checker.rs:223-247).
ProcessDonationEvent ==
    /\ pc = "log_loop"
    /\ lidx <= Len(logs)
    /\ LET l == logs[lidx]
       IN  IF ~l.log.valid
           THEN DecodeFailed
           ELSE \/ /\ Return("err_db")
                   /\ UNCHANGED lidx
                \/ /\ cur' = [hash_key |-> donation_hash_key(l),
                              exists |-> check_donation_exists(donation_hash_key(l)),
                              from_display |-> <<>>]
                   /\ pc' = IF cur'.exists THEN "don_insert" ELSE "ens_resolver"
                   /\ UNCHANGED <<result, lidx>>
    /\ UNCHANGED <<step, start_block, store, ct_locals, current_end_block,
                   current_start_block, logs, windows, kept>>

\* The sender string of the explorer entry used as it came, unparsed.
fallback_display_raw ==
    IF step = "reconcile"
    THEN all_txs[idx].from
    ELSE donation_donor(logs[lidx])

\* The display name used when resolve_ens_name returns None
\* (checker.rs:201, 243).
fallback_display ==
    IF step = "reconcile"
    THEN address_format(Address_from_str(all_txs[idx].from).val)
    ELSE donation_donor(logs[lidx])

InsertPc == IF step = "reconcile" THEN "ct_insert" ELSE "don_insert"

\* resolve_ens_name, the registry call (checker.rs:275-304).
EnsResolver ==
    /\ pc = "ens_resolver"
    /\ \E ans \in ResolverAnswers :
         IF ~ans.ok
         THEN Panic("Failed to call resolver")
         ELSE /\ IF ans.val = ZeroAddress
                 THEN /\ cur' = [cur EXCEPT !.from_display = fallback_display]
                      /\ pc' = InsertPc
                 ELSE /\ pc' = "ens_name"
                      /\ UNCHANGED cur
              /\ UNCHANGED <<step, result, start_block, store, ct_locals, scan_locals,
                             kept>>

\* resolve_ens_name, the resolver call (checker.rs:306-323).
EnsName ==
    /\ pc = "ens_name"
    /\ \E ans \in NameAnswers :
         IF ~ans.ok
         THEN Panic("Failed to call name")
         ELSE /\ cur' = [cur EXCEPT !.from_display =
                            IF ans.val = <<>> THEN fallback_display ELSE ans.val]
              /\ pc' = InsertPc
              /\ UNCHANGED <<step, result, start_block, store, ct_locals, scan_locals,
                             kept>>

\* process_donation_event, the upsert (checker.rs:249-263).
DonInsert ==
    /\ pc = "don_insert"
    /\ LET l == logs[lidx]
           eth_amount == format_eth(parse_or_zero(donation_amount(l)))
           r == insert_donation(donations, l.removed, donation_tx_hash(l),
                                donation_log_index(l), donation_donor(l), eth_amount,
                                cur.hash_key, cur.from_display)
       IN  \/ /\ Return("err_db")
              /\ UNCHANGED <<donations, lidx>>
           \/ /\ r.ok
              /\ donations' = r.table
              /\ lidx' = lidx + 1
              /\ pc' = "log_loop"
              /\ cur' = NoRecord
              /\ UNCHANGED result
           \/ /\ ~r.ok
              /\ Return("err_sql")
              /\ UNCHANGED <<donations, lidx>>
    /\ UNCHANGED <<step, start_block, transfers, ct_locals, current_end_block,
                   current_start_block, logs, windows, kept>>

\* run() takes the result of process_past_logs and enters the loop
\* (checker.rs:74-79).
PastRet ==
    /\ pc = "past_ret"
    /\ pc' = "ct_normal"
    /\ step' = "reconcile"
    /\ result' = "none"
    /\ scanned' = IF result = "ok"
                  THEN Scanned(IF windows = <<>> THEN current_end_block
                               ELSE windows[1][2])
                  ELSE scanned
    /\ DropScanLocals
    /\ UNCHANGED <<start_block, store, ct_locals, cur, restarted_from, hash_vars>>

\* check_transfers, the regular-transaction call (checker.rs:145-151): the
\* request or the decoding of its body fails, or a response is decoded.
CtNormal ==
    /\ pc = "ct_normal"
    /\ \/ /\ Return("err_http")
          /\ UNCHANGED normal_response
       \/ \E r \in Responses(MaxTxs) :
            /\ normal_response' = r
            /\ pc' = "ct_internal"
            /\ UNCHANGED <<result, cur>>
    /\ UNCHANGED <<step, start_block, store, all_txs, idx, scan_locals, kept>>

\* check_transfers, the internal-transaction call, the status test and the
\* concatenation (checker.rs:161-178).
CtInternal ==
    /\ pc = "ct_internal"
    /\ \/ /\ Return("err_http")
          /\ UNCHANGED <<normal_response, all_txs, idx>>
       \/ \E r \in Responses(MaxTxs - Len(normal_response.result)) :
            IF normal_response.status # "1" /\ r.status # "1"
            THEN /\ Return("err_status")
                 /\ UNCHANGED <<normal_response, all_txs, idx>>
            ELSE /\ all_txs' = normal_response.result \o r.result
                 /\ idx' = 1
                 /\ normal_response' = NoResponse
                 /\ pc' = "ct_loop"
                 /\ UNCHANGED <<result, cur>>
    /\ UNCHANGED <<step, start_block, store, scan_locals, kept>>

\* checker.rs:182.
addressed_to_target(tx) == to_lowercase(tx.to) = to_lowercase(target_address)

\* The filter without its value test.
qualifies_any_value(tx) == addressed_to_target(tx)

\* checker.rs:182-184, the two tests an entry passes to be handled.
qualifies(tx) == addressed_to_target(tx) /\ parse_or_zero(tx.value) > 0

transfer_hash_key(tx) == generate_transfer_hash_key(tx.value, tx.from, tx.hash)

\* check_transfers, the end of `for tx in all_txs` (checker.rs:220).
CtDone ==
    /\ pc = "ct_loop"
    /\ idx > Len(all_txs)
    /\ Return("ok")
    /\ UNCHANGED <<step, start_block, store, ct_locals, scan_locals, kept>>

\* check_transfers, one entry up to the name lookup (checker.rs:181-198).
CtEntry ==
    /\ pc = "ct_loop"
    /\ idx <= Len(all_txs)
    /\ LET tx == all_txs[idx]
       IN  IF ~qualifies(tx)
           THEN /\ idx' = idx + 1
                /\ UNCHANGED <<pc, result, cur>>
           ELSE \/ /\ Return("err_db")
                   /\ UNCHANGED idx
                \/ /\ check_transfer_exists(transfer_hash_key(tx))
                   /\ idx' = idx + 1
                   /\ UNCHANGED <<pc, result, cur>>
                \/ /\ ~check_transfer_exists(transfer_hash_key(tx))
                   /\ IF Address_from_str(tx.from).ok
                      THEN /\ cur' = [hash_key |-> transfer_hash_key(tx), exists |-> FALSE,
                                      from_display |-> <<>>]
                           /\ pc' = "ens_resolver"
                           /\ UNCHANGED result
                      ELSE Return("err_addr")
                   /\ UNCHANGED idx
    /\ UNCHANGED <<step, start_block, store, normal_response, all_txs, scan_locals,
                   kept>>

\* check_transfers, the insert (checker.rs:204-215).
CtInsert ==
    /\ pc = "ct_insert"
    /\ LET tx == all_txs[idx]
           eth_amount == format_eth(parse_or_zero(tx.value))
       IN  \/ /\ Return("err_db")
              /\ UNCHANGED <<transfers, idx>>
           \/ /\ transfers' = insert_transfer(transfers, tx.hash, tx.from, eth_amount,
                                              cur.hash_key, cur.from_display)
              /\ idx' = idx + 1
              /\ pc' = "ct_loop"
              /\ cur' = NoRecord
              /\ UNCHANGED result
    /\ UNCHANGED <<step, start_block, donations, normal_response, all_txs, scan_locals,
                   kept>>

\* run() takes the result of check_transfers and goes on to the scan
\* (checker.rs:79-82).
CtRet ==
    /\ pc = "ct_ret"
    /\ pc' = "new_head"
    /\ step' = "incremental"
    /\ result' = "none"
    /\ DropCtLocals
    /\ UNCHANGED <<start_block, store, cur, scan_locals, kept>>

\* process_new_logs, the header query and the window (checker.rs:118-129).
NewGetHead ==
    /\ pc = "new_head"
    /\ \/ /\ Return("err_header")
          /\ UNCHANGED <<step, start_block, store, ct_locals, scan_locals, kept>>
       \/ Panic("unwrap on None")
       \/ \E h \in Heads :
            /\ current_end_block' = h
            /\ current_start_block' = new_window_start(h)
            /\ pc' = "new_logs"
            /\ UNCHANGED <<step, result, start_block, store, ct_locals, cur, logs, lidx,
                           windows, kept>>

\* process_new_logs, the log query (checker.rs:130).
NewGetLogs ==
    /\ pc = "new_logs"
    /\ windows' = Append(windows, <<current_start_block, current_end_block>>)
    /\ \/ /\ Return("err_logs")
          /\ UNCHANGED <<logs, lidx>>
       \/ \E present \in SUBSET (1..Len(ChainLogs)) : \E rm \in SUBSET present :
            /\ logs' = get_logs(current_start_block, current_end_block, present, rm)
            /\ lidx' = 1
            /\ pc' = "log_loop"
            /\ UNCHANGED <<result, cur>>
    /\ UNCHANGED <<step, start_block, store, ct_locals, current_end_block,
                   current_start_block, kept>>

\* run() takes the result of process_new_logs and sleeps (checker.rs:82-85).
NewRet ==
    /\ pc = "new_ret"
    /\ pc' = "sleep"
    /\ step' = "sleep"
    /\ result' = "none"
    /\ scanned' = IF result = "ok" THEN Scanned(current_end_block) ELSE scanned
    /\ DropScanLocals
    /\ UNCHANGED <<start_block, store, ct_locals, cur, restarted_from, hash_vars>>

\* The loop drawn around the backfill as well: after the sleep the task
\* scans the history again.
Sleep_BackfillAgain ==
    /\ pc = "sleep"
    /\ pc' = "past_head"
    /\ step' = "backfill"
    /\ UNCHANGED <<result, start_block, store, ct_locals, cur, scan_locals, kept>>

\* The sleep ends and the loop comes round (checker.rs:85-86, 78-79).
Sleep ==
    /\ pc = "sleep"
    /\ pc' = "ct_normal"
    /\ step' = "reconcile"
    /\ UNCHANGED <<result, start_block, store, ct_locals, cur, scan_locals, kept>>

\* The process is killed and started again (main.rs:102-105 spawns run()
\* afresh): the store keeps its rows, everything in memory is lost.
Crash ==
    /\ restarted_from' = IF cur # NoRecord THEN <<step, "record in hand">>
                         ELSE <<step, "between records">>
    /\ pc' = "past_head"
    /\ step' = "backfill"
    /\ result' = "none"
    /\ cur' = NoRecord
    /\ DropCtLocals
    /\ DropScanLocals
    /\ scanned' = Scanned(-1)
    /\ UNCHANGED <<start_block, store, hash_vars>>

Next ==
    \/ PastGetHead
    \/ PastLoop
    \/ LogsDone
    \/ ProcessDonationEvent
    \/ EnsResolver
    \/ EnsName
    \/ DonInsert
    \/ PastRet
    \/ CtNormal
    \/ CtInternal
    \/ CtDone
    \/ CtEntry
    \/ CtInsert
    \/ CtRet
    \/ NewGetHead
    \/ NewGetLogs
    \/ NewRet
    \/ Sleep
    \/ Crash

Spec == Init /\ [][Next]_vars

(***************************************************************************)
(* One run of the task, from its start to wherever it gets, against a      *)
(* donations table that already holds a row when the process starts: the   *)
(* table outlives the process, and other writers (an earlier deployment, a *)
(* migration) can have filled it.  The row is the one an accepted upsert   *)
(* of the block-30 donation leaves.                                        *)
(***************************************************************************)
SeededLog == [log |-> ChainLogs[2], removed |-> FALSE]

SeededDonations ==
    upsert_donation(EmptyBag, FALSE, donation_tx_hash(SeededLog),
                    donation_log_index(SeededLog), donation_donor(SeededLog),
                    format_eth(parse_or_zero(donation_amount(SeededLog))),
                    donation_hash_key(SeededLog), ResolvedName)

InitSeeded ==
    /\ InitTask
    /\ donations = SeededDonations
    /\ scanned = NoScan
    /\ hash_args = <<>>
    /\ hash_keys = <<>>

\* The steps of a run: every step but the kill of the process.
NextRun ==
    \/ PastGetHead
    \/ PastLoop
    \/ LogsDone
    \/ ProcessDonationEvent
    \/ EnsResolver
    \/ EnsName
    \/ DonInsert
    \/ PastRet
    \/ CtNormal
    \/ CtInternal
    \/ CtDone
    \/ CtEntry
    \/ CtInsert
    \/ CtRet
    \/ NewGetHead
    \/ NewGetLogs
    \/ NewRet
    \/ Sleep

SpecSeeded == InitSeeded /\ [][NextRun]_vars

\* A run with the history of its scans kept: the head of the last scan that
\* returned Ok is remembered across the cycles (checker.rs:74-84).
InitGap ==
    /\ InitTask
    /\ donations = EmptyBag
    /\ scanned = [on |-> TRUE, head |-> -1]
    /\ hash_args = <<>>
    /\ hash_keys = <<>>

SpecGap == InitGap /\ [][NextRun]_vars

\* process_past_logs on its own (checker.rs:89-115), from the call in run()
\* to its return or its panic.  Its awaited calls all come back and the
\* runtime polls the spawned task whenever it can go on (main.rs:102-105),
\* so a step that can be taken is taken.
NextBackfill ==
    \/ PastGetHead
    \/ PastLoop
    \/ LogsDone
    \/ ProcessDonationEvent
    \/ EnsResolver
    \/ EnsName
    \/ DonInsert

SpecBackfill == Init /\ [][NextBackfill]_vars /\ WF_vars(NextBackfill)

(***************************************************************************)
(* The hash-key functions on their own (checker.rs:344-363): two tuples of *)
(* field strings are drawn, and both functions are applied to each.        *)
(***************************************************************************)
FieldStrings == {<<"1">>, <<"2">>, <<"1", "2">>, <<"2", "1">>}

FieldTuples ==
    [amount_wei : FieldStrings, from_address : FieldStrings,
     tx_hash : FieldStrings, log_index : FieldStrings]

InitHash ==
    /\ InitTask
    /\ donations = EmptyBag
    /\ scanned = NoScan
    /\ hash_args \in [1..2 -> FieldTuples]
    /\ hash_keys = <<>>

KeysFor(t) ==
    [transfer |-> generate_transfer_hash_key(t.amount_wei, t.from_address, t.tx_hash),
     donation |-> generate_donation_hash_key(t.amount_wei, t.from_address, t.tx_hash,
                                             t.log_index)]

GenerateHashKeys ==
    /\ hash_keys = <<>>
    /\ hash_keys' = [i \in 1..2 |-> KeysFor(hash_args[i])]
    /\ UNCHANGED <<pc, step, result, start_block, store, ct_locals, cur, scan_locals,
                   restarted_from, scanned, hash_args>>

NextHash == GenerateHashKeys

SpecHash == InitHash /\ [][NextHash]_vars


(***************************************************************************)
(* Properties.                                                             *)
(***************************************************************************)
\* A table holds one row at most for each hash_key.
NoDuplicateKey(table) ==
    \A r \in DOMAIN table :
        /\ table[r] = 1
        /\ \A r2 \in DOMAIN table : r.hash_key = r2.hash_key => r = r2

KeysOf(table) == {r.hash_key : r \in Rows(table)}

\* The key of an explorer entry, from its three business fields.
KeyOfEntry(tx) == Sha256Hex(tx.value \o tx.from \o tx.hash)

\* What the specification asks of an entry that may be persisted.
ToTargetNonzero(tx) ==
    /\ to_lowercase(tx.to) = to_lowercase(target_address)
    /\ parse_u128(tx.value).ok
    /\ parse_u128(tx.value).val > 0

\* C1: transfer idempotence.  After every step the transfer table holds at
\* most one row per hash_key, and a step that inserts a transfer inserts one
\* whose hash_key was not stored: a run over entries that are all stored
\* inserts nothing.
C1_TransferIdempotence ==
    [][ /\ NoDuplicateKey(transfers')
        /\ transfers' # transfers =>
             /\ pc = "ct_insert"
             /\ KeyOfEntry(all_txs[idx]) \notin KeysOf(transfers)
             /\ KeysOf(transfers') = KeysOf(transfers) \cup {KeyOfEntry(all_txs[idx])} ]_vars

\* C1 witness: a run over a response that lists the same entry twice has
\* returned Ok, and the store holds that entry's row once.
C1_Witness ==
    /\ pc = "ct_ret"
    /\ result = "ok"
    /\ all_txs = <<TxA, TxB, TxA>>
    /\ KeysOf(transfers) = {KeyOfEntry(TxA), KeyOfEntry(TxB)}
    /\ NoDuplicateKey(transfers)

\* C2: donation upsert.  Whenever process_donation_event reaches the upsert
\* and the store is reachable, the donation table afterwards holds exactly
\* one row with the log's hash_key, and that row carries the log's removed
\* flag.
C2_UpsertStoresOneRow ==
    [][ (DonInsert /\ result' # "err_db") =>
          /\ Cardinality({r \in Rows(donations') : r.hash_key = cur.hash_key}) = 1
          /\ \A r \in Rows(donations') :
               r.hash_key = cur.hash_key => r.removed = logs[lidx].removed ]_vars

\* C3: filtering.  Every stored transfer row comes from an entry addressed to
\* the target (case-insensitively) whose value parses to a positive integer:
\* its tx_hash, sender, amount and key are those of such an entry.
C3_FilteringInvariant ==
    \A r \in Rows(transfers) :
        \E tx \in Entries :
            /\ ToTargetNonzero(tx)
            /\ r.tx_hash = tx.hash
            /\ r.from_address = tx.from
            /\ r.hash_key = KeyOfEntry(tx)
            /\ r.eth_amount = format_eth(parse_u128(tx.value).val)

\* C3 witness: a run over a zero-value entry, an entry for another recipient
\* and a qualifying entry has returned Ok with the qualifying row alone
\* stored.
C3_Witness ==
    /\ pc = "ct_ret"
    /\ result = "ok"
    /\ all_txs = <<TxZero, TxOther, TxA>>
    /\ KeysOf(transfers) = {KeyOfEntry(TxA)}

\* C4: the poll loop never terminates on error: no failed call of a
\* collaborator, during backfill or polling, leaves the background task dead.
C4_TaskStaysAlive ==
    ~(pc = "panicked" /\ result \in {"Failed to call resolver", "Failed to call name"})

\* C5: a failure of the name service is not escalated: a step of
\* resolve_ens_name, whatever the call answers, leaves the caller running
\* (on to the second call or to the insert of the record).
C5_ResolutionNeverAborts ==
    [][ (EnsResolver \/ EnsName) => pc' \in {"ens_name", "ct_insert", "don_insert"} ]_vars

\* C6: explorer partial failure.  When the regular-transaction call has
\* succeeded (status "1"), check_transfers goes on to the entries whatever
\* becomes of the internal-transaction call.
C6_PartialFailureProceeds ==
    [][ (CtInternal /\ normal_response.status = "1") => pc' = "ct_loop" ]_vars

\* C7: backfill windows.  The windows process_past_logs has queried are in
\* strictly descending order, hold 50,000 blocks at most, lie inside
\* [start_block, head], and the pass ends with current_end_block <=
\* start_block; for head 120000 and start_block 1000 they are [70001,120000],
\* [20002,70001], [1000,20001].
C7_BackfillWindows ==
    step = "backfill" =>
        /\ \A i \in 1..Len(windows) :
             /\ windows[i][1] <= windows[i][2]
             /\ windows[i][2] - windows[i][1] + 1 <= PastSpan + 1
             /\ start_block <= windows[i][1]
             /\ windows[i][2] <= windows[1][2]
        /\ \A i \in 1..(Len(windows) - 1) :
             /\ windows[i + 1][2] < windows[i][2]
             /\ windows[i + 1][1] < windows[i][1]
        /\ (pc = "past_ret" /\ result = "ok") => current_end_block <= start_block
        /\ (pc = "past_ret" /\ result = "ok" /\ start_block = 1000
              /\ windows # <<>> /\ windows[1][2] = 120000) =>
             windows = << <<70001, 120000>>, <<20002, 70001>>, <<1000, 20001>> >>

\* C8: crash safety.  Whatever the points at which the process was killed
\* and started again, no table holds two rows with one hash_key, and every
\* record a run has gone past is stored: each entry before the position of
\* check_transfers that is addressed to the target with a positive value has
\* its row, each decodable log before the position of the scan has its row,
\* and a run that returns Ok has gone past every entry.
C8_CrashSafety ==
    /\ NoDuplicateKey(transfers)
    /\ NoDuplicateKey(donations)
    /\ \A i \in 1..Len(all_txs) :
         (i < idx /\ ToTargetNonzero(all_txs[i])) => KeyOfEntry(all_txs[i]) \in KeysOf(transfers)
    /\ \A i \in 1..Len(logs) :
         (i < lidx /\ logs[i].log.valid) => donation_hash_key(logs[i]) \in KeysOf(donations)
    /\ (pc = "ct_ret" /\ result = "ok") => idx = Len(all_txs) + 1

\* C8 witness: the process was killed in check_transfers between the
\* existence check and the insert, and a later run over two qualifying
\* entries has returned Ok with one row for each.
C8_Witness ==
    /\ restarted_from = <<"reconcile", "record in hand">>
    /\ pc = "ct_ret"
    /\ result = "ok"
    /\ all_txs = <<TxA, TxB>>
    /\ KeysOf(transfers) = {KeyOfEntry(TxA), KeyOfEntry(TxB)}
    /\ NoDuplicateKey(transfers)

\* C9: the incremental scan absorbs overlap.  When process_new_logs returns,
\* the window it queried is [max(0, head - 64), head], and unless the
\* provider or the store was unreachable it returns Ok: a log seen before is
\* no error.
C9_OverlapAbsorbed ==
    pc = "new_ret" =>
        /\ \A i \in 1..Len(windows) :
             /\ windows[i][2] = current_end_block
             /\ windows[i][1] = IF current_end_block - NewSpan > 0
                                THEN current_end_block - NewSpan ELSE 0
        /\ Len(windows) <= 1
        /\ result \in {"ok", "err_header", "err_logs", "err_db"}

\* C10: an undecodable transfer entry is skipped alone.  Unless the explorer
\* or the store was unreachable, check_transfers returns Ok, and every entry
\* of the response that is addressed to the target with a positive value and
\* a valid sender address is stored.
C10_UndecodableSkippedAlone ==
    (pc = "ct_ret" /\ result \notin {"err_http", "err_status", "err_db"}) =>
        /\ result = "ok"
        /\ \A i \in 1..Len(all_txs) :
             (ToTargetNonzero(all_txs[i]) /\ Address_from_str(all_txs[i].from).ok)
                 => KeyOfEntry(all_txs[i]) \in KeysOf(transfers)

\* C11: a log that does not decode as a Donation event is skipped and is
\* not fatal.  The step of process_donation_event on such a log changes no
\* table, sets no error, and leaves the loop at the next log of the same
\* window, in the backfill and in the incremental scan alike.
C11_UndecodableLogSkipped ==
    [][ (ProcessDonationEvent /\ ~logs[lidx].log.valid) =>
          /\ transfers' = transfers
          /\ donations' = donations
          /\ result' = "none"
          /\ pc' = "log_loop"
          /\ step' = step
          /\ logs' = logs
          /\ lidx' = lidx + 1 ]_vars

\* C11 witness: in an incremental scan the first log of the window did not
\* decode and the second log of the same window is being processed.
C11_Witness ==
    /\ step = "incremental"
    /\ pc = "ens_resolver"
    /\ Len(logs) >= 2
    /\ lidx = 2
    /\ ~logs[1].log.valid
    /\ logs[2].log.valid
    /\ donations = EmptyBag

\* What run() does with a result it gets back, whatever the result: after
\* check_transfers the incremental scan, after process_new_logs the sleep,
\* after the sleep the next reconcile.
C12_ReturnedErrorsContinue ==
    [][ ~Crash =>
          /\ (pc = "ct_ret" => pc' = "new_head" /\ step' = "incremental")
          /\ (pc = "new_ret" => pc' = "sleep")
          /\ (pc = "sleep" => pc' = "ct_normal" /\ step' = "reconcile") ]_vars

\* C12: an error of a step aborts only that step.  In a running task the
\* return of check_transfers, with any result, is followed by the incremental
\* scan; the return of process_new_logs, with any result, by the sleep; the
\* sleep by the next reconcile; and no failure met inside a polling step
\* (explorer, node, store or name service) ends the loop before that.
C12_StepErrorAbortsOnlyStep ==
    [][ ~Crash =>
          /\ (pc = "ct_ret" => pc' = "new_head" /\ step' = "incremental")
          /\ (pc = "new_ret" => pc' = "sleep")
          /\ (pc = "sleep" => pc' = "ct_normal" /\ step' = "reconcile")
          /\ (step \in {"reconcile", "incremental"} =>
                ~(/\ pc' = "panicked"
                  /\ result' \in {"Failed to call resolver",
                                  "Failed to call name"})) ]_vars

\* The address a record in hand was sent from, in the one form both paths
\* print an Address in.
NormalizedSender ==
    IF step = "reconcile"
    THEN address_format(to_lowercase(SubSeq(all_txs[idx].from, 3,
                                            Len(all_txs[idx].from))))
    ELSE address_format(logs[lidx].log.donor)

NormalizedOf(from_address) ==
    address_format(to_lowercase(SubSeq(from_address, 3, Len(from_address))))

TransferFields(t) == <<t.amount_wei, t.from_address, t.tx_hash>>
DonationFields(t) == <<t.amount_wei, t.from_address, t.tx_hash, t.log_index>>

\* The positions at which two tuples differ.
DifferAt(f, g) == {i \in 1..Len(f) : f[i] # g[i]}

\* Equal field tuples give equal keys, for both functions.
SameFieldsSameKey ==
    /\ TransferFields(hash_args[1]) = TransferFields(hash_args[2])
          => hash_keys[1].transfer = hash_keys[2].transfer
    /\ DonationFields(hash_args[1]) = DonationFields(hash_args[2])
          => hash_keys[1].donation = hash_keys[2].donation

\* C14 as stated: the keys are a function of the field tuple, and two
\* tuples that differ in any field get different keys, whatever the field
\* strings are.
C14_DistinctTuplesDistinctKeys ==
    hash_keys # <<>> =>
       /\ SameFieldsSameKey
       /\ TransferFields(hash_args[1]) # TransferFields(hash_args[2])
             => hash_keys[1].transfer # hash_keys[2].transfer
       /\ DonationFields(hash_args[1]) # DonationFields(hash_args[2])
             => hash_keys[1].donation # hash_keys[2].donation

\* C14: the keys are a function of the field tuple, and two tuples that
\* differ in exactly one field get different keys, whatever the field
\* strings are.
C14_OneFieldChangesKey ==
    hash_keys # <<>> =>
       /\ SameFieldsSameKey
       /\ Cardinality(DifferAt(TransferFields(hash_args[1]),
                               TransferFields(hash_args[2]))) = 1
             => hash_keys[1].transfer # hash_keys[2].transfer
       /\ Cardinality(DifferAt(DonationFields(hash_args[1]),
                               DonationFields(hash_args[2]))) = 1
             => hash_keys[1].donation # hash_keys[2].donation

\* C14 witness: keys were computed for two tuples that differ in the log
\* index alone; the transfer keys agree and the donation keys differ.
C14_Witness ==
    /\ hash_keys # <<>>
    /\ DifferAt(DonationFields(hash_args[1]), DonationFields(hash_args[2])) = {4}
    /\ hash_args[1].log_index = <<"1">>
    /\ hash_args[2].log_index = <<"1", "2">>
    /\ hash_keys[1].transfer = hash_keys[2].transfer
    /\ hash_keys[1].donation # hash_keys[2].donation

\* C15: the phases of one run of the task are ordered.  The backfill is the
\* first phase and is left once, through its return to run(), for the first
\* reconcile; no later step of the run brings the backfill back; a reconcile
\* is left only through its return and is followed by the incremental scan,
\* the scan only through its return and is followed by the sleep, the sleep
\* by the next reconcile; and while one of them is in progress nothing of
\* the other is in hand.
C15_PhasesOrdered ==
    [][ ~Crash =>
          /\ step' # step =>
                \/ step = "backfill" /\ pc = "past_ret" /\ step' = "reconcile"
                \/ step = "reconcile" /\ pc = "ct_ret" /\ step' = "incremental"
                \/ step = "incremental" /\ pc = "new_ret" /\ step' = "sleep"
                \/ step = "sleep" /\ step' = "reconcile"
          /\ step' = "reconcile" =>
                logs' = <<>> /\ windows' = <<>> /\
                pc' \in {"ct_normal", "ct_internal", "ct_loop", "ens_resolver",
                         "ens_name", "ct_insert", "ct_ret", "panicked"}
          /\ step' \in {"backfill", "incremental"} =>
                all_txs' = <<>> /\ normal_response' = NoResponse /\
                pc' \notin {"ct_normal", "ct_internal", "ct_loop", "ct_insert",
                            "ct_ret", "sleep"} ]_vars

\* C15 witness: a run that was never restarted has left the backfill and a
\* reconcile that stored a transfer behind it and is in the incremental
\* scan, a window in hand.
C15_Witness ==
    /\ restarted_from = <<"none", "none">>
    /\ step = "incremental"
    /\ pc = "log_loop"
    /\ windows # <<>>
    /\ transfers # EmptyBag

\* C16: transfers are immutable once recorded.  Every step of the task and
\* every restart leaves each stored transfer row as it is: the row is still
\* there, once, and is the only row of its hash_key, whatever the explorer
\* lists and the name service answers afterwards.
C16_TransfersImmutable ==
    [][ \A row \in Rows(transfers) :
           /\ BagIn(row, transfers')
           /\ CopiesIn(row, transfers') = CopiesIn(row, transfers)
           /\ {other \in Rows(transfers') : other.hash_key = row.hash_key} = {row}
      ]_vars

\* C16 witness: the explorer listed the same transfer twice in one run; the
\* row stored under the resolved name is the only one after the second
\* sighting.
C16_Witness ==
    /\ step = "reconcile"
    /\ pc = "ct_loop"
    /\ all_txs = <<TxA, TxA>>
    /\ idx = 3
    /\ Rows(transfers) = {[tx_hash |-> TxA.hash, from_address |-> TxA.from,
                           eth_amount |-> format_eth(5),
                           hash_key |-> transfer_hash_key(TxA),
                           from_name |-> ResolvedName]}
    /\ BagCardinality(transfers) = 1

\* C17: the name service is asked only for donations not yet stored.  When
\* process_donation_event finds the key of a decoded log stored, its next
\* step is the upsert, with no display name looked up; when it finds the key
\* not stored, its next step is the name lookup; no lookup is ever in
\* progress for a stored key, and an upsert for a key that is not stored
\* comes only out of a lookup.
C17_LookupOnlyForUnseen ==
    [][ /\ (/\ pc = "log_loop"
            /\ pc' \in {"don_insert", "ens_resolver", "ens_name"}) =>
              IF donation_hash_key(logs[lidx]) \in KeysOf(donations)
              THEN pc' = "don_insert" /\ cur'.exists /\ cur'.from_display = <<>>
              ELSE pc' = "ens_resolver" /\ ~cur'.exists
        /\ (pc' \in {"ens_resolver", "ens_name"} /\ step' # "reconcile") =>
              donation_hash_key(logs'[lidx']) \notin KeysOf(donations')
        /\ (pc' = "don_insert" /\ pc # "don_insert") =>
              \/ donation_hash_key(logs'[lidx']) \in KeysOf(donations')
              \/ pc \in {"ens_resolver", "ens_name"} /\ cur'.from_display # <<>>
      ]_vars

\* C17 witness: an incremental scan meets the stored donation again, now
\* flagged removed, and stands at the upsert without a name looked up.
C17_Witness ==
    /\ step = "incremental"
    /\ pc = "don_insert"
    /\ logs[lidx].log = ChainLogs[2]
    /\ logs[lidx].removed
    /\ cur.exists
    /\ cur.from_display = <<>>
    /\ cur.hash_key \in KeysOf(donations)

\* C18: the backfill terminates.  Every window it queries starts below its
\* end, every pass of the loop leaves current_end_block lower than it found
\* it, the number of windows queried is at most head / 49,999 + 1, and a
\* backfill that has read the head comes to its end: it is back in run(),
\* or the task has ended in a panic while a log was processed.
C18_BackfillTerminates ==
    /\ [][ /\ (pc = "past_loop" /\ pc' # "past_ret") =>
                 current_start_block' < current_end_block
           /\ (step = "backfill" /\ pc = "log_loop" /\ pc' = "past_loop") =>
                 current_end_block' < current_end_block /\ current_end_block' >= 0
       ]_vars
    /\ [](step = "backfill" /\ windows # <<>> =>
             Len(windows) <= (windows[1][2] \div PastSpan) + 1)
    /\ (step = "backfill" /\ pc = "past_loop") ~> (pc \in {"past_ret", "panicked"})

\* C18 witness: a backfill from block 0 under head 120,000 has queried its
\* third window and returned Ok.
C18_Witness ==
    /\ step = "backfill"
    /\ pc = "past_ret"
    /\ result = "ok"
    /\ start_block = 0
    /\ Len(windows) = 3
    /\ windows[1][2] = 120000
    /\ windows[3][1] = 0

\* The head a backfill read, seen from its return: the end of its first
\* window, or current_end_block when it queried none.
BackfillHead == IF windows = <<>> THEN current_end_block ELSE windows[1][2]

\* C19: backfill coverage.  When process_past_logs returns Ok after reading
\* a head at or above start_block, every block from start_block to that head
\* lies inside a window it queried.
C19_BackfillCoverage ==
    (step = "backfill" /\ pc = "past_ret" /\ result = "ok"
       /\ BackfillHead >= start_block) =>
          \A b \in start_block..BackfillHead :
             \E i \in 1..Len(windows) : windows[i][1] <= b /\ b <= windows[i][2]

\* C20: no scan gap after the backfill.  When an incremental scan returns
\* Ok at head h2 and the scan before it that returned Ok, the backfill or an
\* incremental one, was at head h1 <= h2, every block above h1 up to h2 lies
\* inside the window the later scan queried.
C20_NoScanGap ==
    (step = "incremental" /\ pc = "new_ret" /\ result = "ok"
       /\ scanned.head >= 0 /\ scanned.head <= current_end_block) =>
          \A b \in (scanned.head + 1)..current_end_block :
             \E i \in 1..Len(windows) : windows[i][1] <= b /\ b <= windows[i][2]

\* C21: no stored donation has an empty display name.  In every state every
\* row of the donations table carries a name, and an upsert that is about to
\* be issued with the empty name (the existence check answered true) is for
\* a key that has a row, so it can add no row.
C21_NoEmptyDisplayName ==
    /\ \A row \in Rows(donations) : row.from_name # <<>>
    /\ (pc = "don_insert" /\ cur.from_display = <<>>) =>
          cur.hash_key \in KeysOf(donations)

\* C21 witness: the upsert for the stored block-30 donation was issued with
\* the empty name and has come back; the row still carries its name.
C21_Witness ==
    /\ step = "incremental"
    /\ pc = "new_ret"
    /\ result = "err_sql"
    /\ lidx = 1
    /\ logs[1].log = ChainLogs[2]
    /\ donation_hash_key(logs[1]) \in KeysOf(donations)
    /\ \A row \in Rows(donations) : row.from_name = ResolvedName

====
